---- MODULE Spec2Model ----
(***************************************************************************)
(* Model of the mov_compressor repository: the settings resolver           *)
(* (VideoCompressor.compress, compress_video.py) and the upload/dispatch   *)
(* handler (CompressionHandler.do_POST, web_interface.py).                 *)
(*                                                                         *)
(* Bytes and text are sequences of tokens.  A token stands for a fixed run *)
(* of bytes: "CRLF" is \r\n, "LF" is \n, "NUL" is \x00, "BAD" is a byte    *)
(* that is not valid UTF-8 (0xff), "name=\"" is the five bytes name=",     *)
(* and so on.  Substring search, split and strip work on the token         *)
(* sequence exactly as the Python operations work on the bytes.            *)
(***************************************************************************)
EXTENDS Integers, Sequences, FiniteSets, TLC

\* ---------------------------------------------------------------- bounds

\* Largest number of multipart parts in one request body.
MaxParts == 2

\* Longest filename string given to _sanitize_filename on its own.
MaxNameLen == 3

\* ------------------------------------------------------- byte-string helpers

\* h[i..] starts with n
StartsAt(h, n, i) ==
    /\ i + Len(n) - 1 <= Len(h)
    /\ \A k \in 1..Len(n) : h[i + k - 1] = n[k]

\* bytes.find / str.find: first index (1-based) of n in h, 0 when absent
Find(h, n) ==
    LET hits == {i \in 1..(Len(h) + 1) : StartsAt(h, n, i)}
    IN  IF hits = {} THEN 0 ELSE CHOOSE i \in hits : \A j \in hits : i <= j

\* the `in` operator on bytes / str
Contains(h, n) == Find(h, n) # 0

\* bytes.split(sep) / str.split(sep), sep non-empty: left to right
RECURSIVE Split(_, _)
Split(h, n) ==
    LET i == Find(h, n)
    IN  IF i = 0 THEN <<h>>
        ELSE <<SubSeq(h, 1, i - 1)>> \o Split(SubSeq(h, i + Len(n), Len(h)), n)

\* bytes.strip(b'\r\n'): drop every \r and \n byte at both ends
RECURSIVE LStrip(_, _)
LStrip(s, chars) ==
    IF s # <<>> /\ s[1] \in chars THEN LStrip(Tail(s), chars) ELSE s

RECURSIVE RStrip(_, _)
RStrip(s, chars) ==
    IF s # <<>> /\ s[Len(s)] \in chars
    THEN RStrip(SubSeq(s, 1, Len(s) - 1), chars) ELSE s

StripCRLF(s) == RStrip(LStrip(s, {"CRLF", "LF"}), {"CRLF", "LF"})

\* bytes.decode('utf-8', errors='ignore'): invalid bytes are dropped
DecodeIgnore(b) == SelectSeq(b, LAMBDA t : t # "BAD")

\* bytes.decode('utf-8'): UnicodeDecodeError on an invalid byte
DecodeOk(b) == \A k \in 1..Len(b) : b[k] # "BAD"

\* ------------------------------------------------------------ int(), re

Digits == {"0", "1", "2", "3", "4", "5", "6", "7", "8", "9"}

DigitVal(c) ==
    CASE c = "0" -> 0 [] c = "1" -> 1 [] c = "2" -> 2 [] c = "3" -> 3
      [] c = "4" -> 4 [] c = "5" -> 5 [] c = "6" -> 6 [] c = "7" -> 7
      [] c = "8" -> 8 [] c = "9" -> 9

\* digits, single underscores allowed between digits (Python int literal)
RECURSIVE DigitsOk(_)
DigitsOk(s) ==
    /\ s # <<>>
    /\ s[1] \in Digits
    /\ \/ Len(s) = 1
       \/ /\ s[2] = "_"
          /\ DigitsOk(SubSeq(s, 3, Len(s)))
       \/ /\ s[2] # "_"
          /\ DigitsOk(Tail(s))

RECURSIVE DigitsVal(_, _)
DigitsVal(s, acc) ==
    IF s = <<>> THEN acc
    ELSE IF s[1] = "_" THEN DigitsVal(Tail(s), acc)
    ELSE DigitsVal(Tail(s), 10 * acc + DigitVal(s[1]))

\* int(text): surrounding whitespace stripped, optional sign, digits;
\* ok = FALSE is ValueError
PyInt(text) ==
    LET ws == {" ", "LF", "CRLF"}
        t  == RStrip(LStrip(text, ws), ws)
        signed == t # <<>> /\ t[1] \in {"+", "-"}
        body == IF signed THEN Tail(t) ELSE t
    IN  IF DigitsOk(body)
        THEN [ok |-> TRUE,
              val |-> IF signed /\ t[1] = "-" THEN 0 - DigitsVal(body, 0)
                      ELSE DigitsVal(body, 0)]
        ELSE [ok |-> FALSE, val |-> 0]

AllDigits(s) == s # <<>> /\ \A k \in 1..Len(s) : s[k] \in Digits

\* digits ':' optional '-' digits, and nothing else
ScaleShape(s) ==
    \E k \in 1..Len(s) :
        /\ s[k] = ":"
        /\ AllDigits(SubSeq(s, 1, k - 1))
        /\ LET rest == SubSeq(s, k + 1, Len(s))
           IN  \/ AllDigits(rest)
               \/ rest # <<>> /\ rest[1] = "-" /\ AllDigits(Tail(rest))

\* re.match(r'^\d+:-?\d+$', value): in Python `$` also matches just before a
\* newline that ends the string
ReMatchScale(s) ==
    \/ ScaleShape(s)
    \/ s # <<>> /\ s[Len(s)] = "LF" /\ ScaleShape(SubSeq(s, 1, Len(s) - 1))

\* ------------------------------------------------------------ filenames

\* str.split('/') of a path: the components between separators
PathComponents(s) ==
    SelectSeq(Split(s, <<"/">>), LAMBDA c : c # <<>> /\ c # <<".">>)

\* Path(filename).name on a POSIX host: the last component that is neither
\* empty nor '.', or '' when there is none ('..' is kept as a component)
PathName(s) ==
    LET cs == PathComponents(s)
    IN  IF cs = <<>> THEN <<>> ELSE cs[Len(cs)]

\* the character class [<>:"/\\|?*]
Problematic == {"<", ">", ":", "\"", "/", "\\", "|", "?", "*"}

ReplaceProblematic(s) ==
    [k \in 1..Len(s) |-> IF s[k] \in Problematic THEN "_" ELSE s[k]]

\* CompressionHandler._sanitize_filename
SanitizeFilename(s) ==
    LET base   == PathName(s)
        nonull == SelectSeq(base, LAMBDA t : t # "NUL")
        clean  == ReplaceProblematic(nonull)
    IN  IF clean = <<>> THEN <<"uploaded_video">> ELSE clean

\* Path(filename).stem: the name up to its last dot, when that dot is neither
\* the first nor the last character
PathStem(s) ==
    LET name == PathName(s)
        dots == {k \in 1..Len(name) : name[k] = "."}
        j    == IF dots = {} THEN 0 ELSE CHOOSE k \in dots : \A m \in dots : m <= k
    IN  IF 1 < j /\ j < Len(name) THEN SubSeq(name, 1, j - 1) ELSE name

\* f"{Path(filename).stem}_compressed.mp4"
OutputFilename(name) == PathStem(name) \o <<"_compressed", ".", "mp4">>

\* CompressionHandler._ascii_safe_filename: "NONASCII" is a character >= 128
AsciiSafeFilename(s) ==
    [k \in 1..Len(s) |-> IF s[k] = "NONASCII" THEN "_" ELSE s[k]]

\* open(temp_dir / name, 'wb') cannot create a file named '.' or '..'
IsDirectoryName(name) == name \in {<<".">>, <<".", ".">>}

\* ------------------------------------------------------ settings resolver

\* VideoCompressor.PRESETS as the class is loaded
BuiltinPresets ==
    [high   |-> [crf |-> 18, preset |-> "slow",
                 description |-> "High quality, larger file"],
     medium |-> [crf |-> 23, preset |-> "medium",
                 description |-> "Balanced quality and size"],
     low    |-> [crf |-> 28, preset |-> "fast",
                 description |-> "Lower quality, smaller file"],
     web    |-> [crf |-> 25, preset |-> "medium",
                 scale |-> <<"1", "2", "8", "0", ":", "-", "2">>,
                 description |-> "Optimized for web (720p)"]]

\* d[k] = v on a dict
Put(d, k, v) == [x \in DOMAIN d \cup {k} |-> IF x = k THEN v ELSE d[x]]

\* self.PRESETS.get(preset, self.PRESETS['medium'])
PresetLookup(table, preset) ==
    IF preset \in DOMAIN table THEN table[preset] ELSE table["medium"]

\* the overrides merged into the looked-up preset.  An optional argument is a
\* sequence: <<>> is None, <<v>> is the value v.
ResolveSettings(table, preset, crf, scale) ==
    LET base == PresetLookup(table, preset)
        s1   == IF crf # <<>> THEN Put(base, "crf", crf[1]) ELSE base
    IN  IF scale # <<>> /\ scale[1] # <<>> THEN Put(s1, "scale", scale[1]) ELSE s1

PresetsAfterNoCopy(table, preset, crf, scale) ==
    Put(table, IF preset \in DOMAIN table THEN preset ELSE "medium",
        ResolveSettings(table, preset, crf, scale))

\* the class table after one compress call: the looked-up preset is copied
\* (.copy()) before the overrides are written, so the table is left as it was
PresetsAfter(table, preset, crf, scale) == table

\* the ffmpeg argument list, one field per option: -c:v, -crf, -preset,
\* -vf scale=..., -r.  vf and r are <<>> when the option is not passed.
BuildCmd(settings, fps, codec) ==
    [vcodec |-> IF codec = "h265" THEN "libx265" ELSE "libx264",
     crf    |-> settings.crf,
     preset |-> IF "preset" \in DOMAIN settings THEN settings.preset ELSE "medium",
     vf     |-> IF "scale" \in DOMAIN settings THEN <<settings.scale>> ELSE <<>>,
     r      |-> IF fps # <<>> /\ fps[1] # 0 THEN fps ELSE <<>>,
     acodec |-> "aac"]

\* one call of VideoCompressor.compress up to subprocess.run: what was asked
\* and the argument list built from it
EncoderCall(table, preset, crf, scale, fps, codec) ==
    [preset |-> preset, crf |-> crf, scale |-> scale, fps |-> fps, codec |-> codec,
     settings |-> ResolveSettings(table, preset, crf, scale),
     cmd |-> BuildCmd(ResolveSettings(table, preset, crf, scale), fps, codec)]

\* ------------------------------------------------------- wide integers

\* Content-Length values do not fit the model checker's integers: the integer
\* g * 2^30 + b, 0 <= b < 2^30, is the record [g |-> g, b |-> b].
GiB == 1024 * 1024 * 1024

Wide(g, b) == [g |-> g, b |-> b]

WideGT(x, y) == x.g > y.g \/ (x.g = y.g /\ x.b > y.b)

WideNeg(x) == x.g < 0

\* MAX_FILE_SIZE = 4 * 1024 * 1024 * 1024
MAX_FILE_SIZE == Wide(4, 0)

VALID_PRESETS == {"high", "medium", "low", "web"}

VALID_CODECS == {"h264", "h265"}

\* ------------------------------------------------------------- requests

SEP == <<"CRLF", "CRLF">>

Boundary == <<"B">>

Delim == <<"--">> \o Boundary

\* the header block of a form part
Hdr(name) ==
    <<"CRLF", "Content-Disposition", ": form-data; ", "name=\"", name, "\"">>

\* a text field part
Field(name, value) == Hdr(name) \o SEP \o value \o <<"CRLF">>

\* a part whose header block is not followed by the blank line
FieldNoSep(name) == Hdr(name) \o <<"CRLF">>

\* a file part; fname is <<>> (no filename parameter) or <<the filename>>
FilePart(fname, payload) ==
    Hdr("file")
    \o (IF fname = <<>> THEN <<>>
        ELSE <<"; ", "file", "name=\"">> \o fname[1] \o <<"\"">>)
    \o <<"CRLF", "Content-Type: video/quicktime">> \o SEP \o payload \o <<"CRLF">>

\* a part declared under `name` that also carries a filename parameter
UploadPart(name, fname, payload) ==
    Hdr(name) \o <<"; ", "file", "name=\"">> \o fname \o <<"\"">>
    \o <<"CRLF", "Content-Type: video/quicktime">> \o SEP \o payload \o <<"CRLF">>

FileNames == {<<"a", ".", "mov">>, <<>>, <<".", ".">>}

Payloads == {<<>>, <<"x", "y">>}

PresetValues == {<<"high">>, <<"web">>, <<"bogus">>}

CrfValues == {<<"2", "0">>, <<"5", "1">>, <<"5", "2">>, <<"-", "1">>, <<"x">>}

ScaleValues ==
    {<<"6", "4", "0", ":", "-", "2">>, <<"none">>, <<"x">>,
     <<"1", ":", "2", "LF", "BAD">>}

FpsValues == {<<"3", "0">>, <<"0">>, <<"1", "2", "1">>, <<"BAD">>}

CodecValues == {<<"h265">>, <<"x">>}

PartTemplates ==
    {FilePart(<<fn>>, pl) : fn \in FileNames, pl \in Payloads}
    \cup {FilePart(<<>>, pl) : pl \in Payloads}
    \cup {Field("preset", v) : v \in PresetValues}
    \cup {Field("crf", v) : v \in CrfValues}
    \cup {Field("scale", v) : v \in ScaleValues}
    \cup {Field("fps", v) : v \in FpsValues}
    \cup {Field("codec", v) : v \in CodecValues}
    \cup {FieldNoSep(n) : n \in {"file", "preset", "crf"}}
    \cup {Field("other", <<"v">>), <<"CRLF", "x", "CRLF">>}
    \cup {UploadPart("other", <<"file">>, <<"x", "y">>),
          UploadPart("other", <<"crf">>, <<"2", "0">>),
          Field("preset", <<"name=\"", "file", "\"">>)}

RECURSIVE Flatten(_)
Flatten(ps) ==
    IF ps = <<>> THEN <<>> ELSE Delim \o ps[1] \o Flatten(Tail(ps))

\* a multipart body: each part after a delimiter line, then the closing one
Body(ps) == Flatten(ps) \o Delim \o <<"--", "CRLF">>

PartLists == UNION {[1..n -> PartTemplates] : n \in 0..MaxParts}

ContentTypes ==
    {<<>>,
     <<"multipart/form-data">>,
     <<"multipart/form-data; ", "boundary=">> \o Boundary,
     <<"multipart/form-data; ", "boundary=", "\"">> \o Boundary \o <<"\"">>}

\* Content-Length headers: absent, empty, not an integer, or an integer
ContentLengths(n) ==
    {[tag |-> "absent", val |-> Wide(0, 0)],
     [tag |-> "empty", val |-> Wide(0, 0)],
     [tag |-> "text", val |-> Wide(0, 0)],
     [tag |-> "int", val |-> Wide(0, n)],
     [tag |-> "int", val |-> Wide(0, 0)],
     [tag |-> "int", val |-> Wide(-1, GiB - 1)],
     [tag |-> "int", val |-> Wide(-1, GiB - 2)],
     [tag |-> "int", val |-> MAX_FILE_SIZE],
     [tag |-> "int", val |-> Wide(4, 1)],
     [tag |-> "int", val |-> Wide(5, 0)]}

\* the requests a client sends: every body with a correct Content-Length and
\* a boundary; the header variants with the bodies of at most one part
Requests ==
    {[path |-> "/compress", cl |-> [tag |-> "int", val |-> Wide(0, Len(Body(ps)))],
      ctype |-> <<"multipart/form-data; ", "boundary=">> \o Boundary,
      stream |-> Body(ps)] : ps \in PartLists}
    \cup UNION {{[path |-> "/compress", cl |-> c, ctype |-> ct, stream |-> Body(ps)]
                   : c \in ContentLengths(Len(Body(ps))), ct \in ContentTypes}
                : ps \in {q \in PartLists : Len(q) <= 1}}
    \cup {[path |-> "/other", cl |-> [tag |-> "absent", val |-> Wide(0, 0)],
           ctype |-> <<>>, stream |-> <<>>]}

\* ---------------------------------------------------------------- state

VARIABLES
    pc,          \* where the process is: idle, a step of do_POST, done
    req,         \* the request being handled: path, headers, body stream
    post_data,   \* do_POST: the bytes read from rfile
    bytesRead,   \* <<>> before rfile.read returned, then <<number of bytes>>
    parts,       \* do_POST: post_data split on the delimiter
    idx,         \* do_POST: position of the part loop
    file_data,   \* do_POST: <<>> is None, <<bytes>> a payload
    filename,    \* do_POST: <<>> is None, <<name>> a sanitized name
    settings,    \* do_POST: the settings dict
    temp,        \* the staging directory: made, exists, the files in it
    result,      \* do_POST: <<>> or <<the dict compress returned>>
    caught,      \* the exception the except clause of do_POST caught, or ""
    exc,         \* the exception leaving do_POST, or ""
    wire,        \* what was written to the client socket, in order
    conn,        \* the client socket: open or broken
    encCalls,    \* the encoder invocations of this request or call
    rmtreeCalls, \* shutil.rmtree calls of this request
    warnings,    \* logger.warning calls of this request
    outputReads, \* times the output file was opened for reading, this request
    PRESETS,     \* VideoCompressor.PRESETS, the class table
    overridden,  \* an earlier compress call of this process had an override
    sanIn,       \* a filename given to _sanitize_filename on its own
    sanOut       \* <<>>, or <<its result, the result sanitized again>>

vars ==
    <<pc, req, post_data, bytesRead, parts, idx, file_data, filename, settings,
      temp, result, caught, exc, wire, conn, encCalls, rmtreeCalls, warnings,
      outputReads, PRESETS, overridden, sanIn, sanOut>>

\* the handler's locals and the request's bookkeeping
locals ==
    <<post_data, bytesRead, parts, idx, file_data, filename, settings, temp,
      result, caught, exc, wire, conn, encCalls, rmtreeCalls, warnings,
      outputReads>>

NoRequest ==
    [path |-> "", cl |-> [tag |-> "absent", val |-> Wide(0, 0)], ctype |-> <<>>,
     stream |-> <<>>]

NoTemp == [made |-> FALSE, exists |-> FALSE, files |-> {}]

EmptyDict == [k \in {} |-> 0]

FreshLocals ==
    /\ post_data = <<>>
    /\ bytesRead = <<>>
    /\ parts = <<>>
    /\ idx = 0
    /\ file_data = <<>>
    /\ filename = <<>>
    /\ settings = EmptyDict
    /\ temp = NoTemp
    /\ result = <<>>
    /\ caught = ""
    /\ exc = ""
    /\ wire = <<>>
    /\ conn = "open"
    /\ encCalls = <<>>
    /\ rmtreeCalls = 0
    /\ warnings = <<>>
    /\ outputReads = 0

\* the same values for the next request or call
ResetLocals ==
    /\ post_data' = <<>>
    /\ bytesRead' = <<>>
    /\ parts' = <<>>
    /\ idx' = 0
    /\ file_data' = <<>>
    /\ filename' = <<>>
    /\ settings' = EmptyDict
    /\ temp' = NoTemp
    /\ result' = <<>>
    /\ caught' = ""
    /\ exc' = ""
    /\ wire' = <<>>
    /\ conn' = "open"
    /\ encCalls' = <<>>
    /\ rmtreeCalls' = 0
    /\ warnings' = <<>>
    /\ outputReads' = 0

Init ==
    /\ pc = "idle"
    /\ req = NoRequest
    /\ FreshLocals
    /\ PRESETS = BuiltinPresets
    /\ overridden = FALSE
    /\ sanIn = <<>>
    /\ sanOut = <<>>

\* --------------------------------------------------------------- responses

JsonType == "application/json; charset=utf-8"

HeadChunk(code, ctype, fname, info) ==
    [kind |-> "head", code |-> code, ctype |-> ctype, filename |-> fname,
     info |-> info, json |-> <<>>, data |-> <<>>]

\* _send_error_response(code, message): the status line and headers are
\* flushed by end_headers, then the JSON body is written
ErrorChunks(code, message) ==
    << HeadChunk(code, JsonType, <<>>, <<>>),
       [kind |-> "body", code |-> code, ctype |-> JsonType, filename |-> <<>>,
        info |-> <<>>, json |-> <<[error |-> message]>>, data |-> <<>>] >>

\* Writing chunks to the socket: on an open socket k of them are written
\* before the client goes away (k = Len(chunks): all of them); a write on a
\* broken socket raises at once.  raisepc is where the exception leads.
WriteChunks(chunks, okpc, raisepc, raiseCaught, raiseExc) ==
    \E k \in (IF conn = "open" THEN 0..Len(chunks) ELSE {0}) :
        /\ wire' = wire \o SubSeq(chunks, 1, k)
        /\ conn' = IF k < Len(chunks) THEN "broken" ELSE conn
        /\ pc' = IF k < Len(chunks) THEN raisepc ELSE okpc
        /\ caught' = IF k < Len(chunks) /\ raiseCaught THEN "ConnectionError" ELSE caught
        /\ exc' = IF k < Len(chunks) /\ raiseExc THEN "ConnectionError" ELSE exc

\* an error response sent outside the try block: an exception leaves do_POST
ReplyError(code, message) ==
    WriteChunks(ErrorChunks(code, message), "done", "done", FALSE, TRUE)

\* ------------------------------------------------------ part processing

\* b'name="<field>"' in part
NameIn(part, field) == Contains(part, <<"name=\"", field, "\"">>)

\* part.split(b'\r\n\r\n')[1] exists
HasValue(part) == Len(Split(part, SEP)) >= 2

\* part.split(b'\r\n\r\n')[1].strip(b'\r\n')
ValueBytes(part) == StripCRLF(Split(part, SEP)[2])

\* The file branch: the filename, when the header block has one, and the payload
FileBranch(part, fd, fn, st) ==
    LET he      == Find(part, SEP)
        headers == DecodeIgnore(SubSeq(part, 1, he - 1))
        marker  == <<"file", "name=\"">>
        raw     == Split(Split(headers, marker)[2], <<"\"">>)[1]
        data    == SubSeq(part, he + Len(SEP), Len(part))
    IN  IF he = 0 THEN [crash |-> FALSE, file_data |-> fd, filename |-> fn, settings |-> st]
        ELSE [crash |-> FALSE,
              file_data |-> <<IF data # <<>> /\ data[Len(data)] = "CRLF"
                               THEN SubSeq(data, 1, Len(data) - 1) ELSE data>>,
              filename |-> IF Contains(headers, marker)
                           THEN <<SanitizeFilename(raw)>> ELSE fn,
              settings |-> st]

PresetBranch(part, st) ==
    LET v == DecodeIgnore(ValueBytes(part))
    IN  IF Len(v) = 1 /\ v[1] \in VALID_PRESETS
        THEN Put(st, "preset", v[1]) ELSE Put(st, "preset", "medium")

CrfInRange(n) == 0 <= n /\ n <= 51

CrfBranch(part, st) ==
    LET v == ValueBytes(part)
    IN  IF DecodeOk(v) /\ PyInt(v).ok /\ CrfInRange(PyInt(v).val)
        THEN Put(st, "crf", PyInt(v).val) ELSE st

ScaleBranch(part, st) ==
    LET v == DecodeIgnore(ValueBytes(part))
    IN  IF v # <<>> /\ v # <<"none">> /\ ReMatchScale(v)
        THEN Put(st, "scale", v) ELSE st

FpsInRange(n) == 1 <= n /\ n <= 120

FpsBranch(part, st) ==
    LET v == ValueBytes(part)
    IN  IF DecodeOk(v) /\ PyInt(v).ok /\ FpsInRange(PyInt(v).val)
        THEN Put(st, "fps", PyInt(v).val) ELSE st

CodecBranch(part, st) ==
    LET v == DecodeIgnore(ValueBytes(part))
    IN  IF Len(v) = 1 /\ v[1] \in VALID_CODECS
        THEN Put(st, "codec", v[1]) ELSE Put(st, "codec", "h264")

\* which branch of the if / elif chain takes the part ("" : none)
BranchOf(part) ==
    IF ~Contains(part, <<"Content-Disposition">>) THEN ""
    ELSE IF NameIn(part, "file") THEN "file"
    ELSE IF NameIn(part, "preset") THEN "preset"
    ELSE IF NameIn(part, "crf") THEN "crf"
    ELSE IF NameIn(part, "scale") THEN "scale"
    ELSE IF NameIn(part, "fps") THEN "fps"
    ELSE IF NameIn(part, "codec") THEN "codec"
    ELSE ""

\* One iteration of the part loop.  crash: part.split(...)[1] raised IndexError.
PartEffect(part, fd, fn, st) ==
    LET b    == BranchOf(part)
        keep == [crash |-> FALSE, file_data |-> fd, filename |-> fn, settings |-> st]
    IN  IF b = "" THEN keep
        ELSE IF b = "file" THEN FileBranch(part, fd, fn, st)
        ELSE IF ~HasValue(part) THEN [keep EXCEPT !.crash = TRUE]
        ELSE [keep EXCEPT !.settings =
                CASE b = "preset" -> PresetBranch(part, st)
                  [] b = "crf"    -> CrfBranch(part, st)
                  [] b = "scale"  -> ScaleBranch(part, st)
                  [] b = "fps"    -> FpsBranch(part, st)
                  [] b = "codec"  -> CodecBranch(part, st)]

\* `if file_data and filename`: None and the empty value are both false
Truthy(opt) == opt # <<>> /\ opt[1] # <<>>

\* ------------------------------------------------------ do_POST, step by step

Min(a, b) == IF a <= b THEN a ELSE b

\* a request arrives and do_POST is entered
NewRequest ==
    /\ pc = "idle"
    /\ \E r \in Requests : req' = r
    /\ pc' = "post"
    /\ UNCHANGED <<locals, PRESETS, overridden, sanIn, sanOut>>

\* any path but /compress: 404 with no body
NotFound ==
    /\ pc = "post"
    /\ req.path # "/compress"
    /\ WriteChunks(<<HeadChunk(404, "", <<>>, <<>>)>>, "done", "done", FALSE, TRUE)
    /\ UNCHANGED <<req, post_data, bytesRead, parts, idx, file_data, filename,
                   settings, temp, result, encCalls, rmtreeCalls, warnings, outputReads,
                   PRESETS, overridden, sanIn, sanOut>>

\* the Content-Length checks
CheckContentLength ==
    /\ pc = "post"
    /\ req.path = "/compress"
    /\ IF req.cl.tag \in {"absent", "empty"}
       THEN ReplyError(400, <<"Content-Length header required">>)
       ELSE IF req.cl.tag = "text"
       THEN ReplyError(400, <<"Invalid Content-Length">>)
       ELSE IF WideGT(req.cl.val, MAX_FILE_SIZE)
       THEN ReplyError(413, <<"File too large. Maximum size is 4GB">>)
       ELSE /\ pc' = "read"
            /\ UNCHANGED <<wire, conn, caught, exc>>
    /\ UNCHANGED <<req, post_data, bytesRead, parts, idx, file_data, filename,
                   settings, temp, result, encCalls, rmtreeCalls, warnings, outputReads,
                   PRESETS, overridden, sanIn, sanOut>>

\* the number of bytes rfile.read(n) returns from a stream that ends after the
\* request body: all of it for n = -1, at most n for n >= 0
ReadCount(n, stream) ==
    IF WideNeg(n) \/ n.g > 0 THEN Len(stream) ELSE Min(n.b, Len(stream))

\* rfile.read(n) raises ValueError for n < -1
ReadRaises(n) == WideNeg(n) /\ n # Wide(-1, GiB - 1)

\* post_data = self.rfile.read(content_length)
ReadBody ==
    /\ pc = "read"
    /\ IF ReadRaises(req.cl.val)
       THEN /\ pc' = "done"
            /\ exc' = "ValueError"
            /\ UNCHANGED <<post_data, bytesRead>>
       ELSE /\ post_data' = SubSeq(req.stream, 1, ReadCount(req.cl.val, req.stream))
            /\ bytesRead' = <<ReadCount(req.cl.val, req.stream)>>
            /\ pc' = "boundary"
            /\ exc' = exc
    /\ UNCHANGED <<req, parts, idx, file_data, filename, settings, temp, result,
                   caught, wire, conn, encCalls, rmtreeCalls, warnings, outputReads, PRESETS, overridden,
                   sanIn, sanOut>>

\* content_type.split('boundary=')[1], surrounding quotes stripped
BoundaryOf(ctype) ==
    LET b == Split(ctype, <<"boundary=">>)[2]
    IN  IF b # <<>> /\ b[1] = "\"" /\ b[Len(b)] = "\""
        THEN SubSeq(b, 2, Len(b) - 1) ELSE b

\* the boundary is extracted and the body split on it
ParseBoundary ==
    /\ pc = "boundary"
    /\ IF ~Contains(req.ctype, <<"boundary=">>)
       THEN /\ ReplyError(400, <<"Invalid multipart form data">>)
            /\ UNCHANGED <<parts, idx>>
       ELSE /\ parts' = Split(post_data, <<"--">> \o BoundaryOf(req.ctype))
            /\ idx' = 1
            /\ pc' = "parts"
            /\ UNCHANGED <<wire, conn, caught, exc>>
    /\ UNCHANGED <<req, post_data, bytesRead, file_data, filename, settings, temp,
                   result, encCalls, rmtreeCalls, warnings, outputReads, PRESETS, overridden, sanIn, sanOut>>

\* one iteration of `for part in parts`
ProcessPart ==
    /\ pc = "parts"
    /\ idx <= Len(parts)
    /\ LET e == PartEffect(parts[idx], file_data, filename, settings)
       IN  IF e.crash
           THEN /\ pc' = "done"
                /\ exc' = "IndexError"
                /\ UNCHANGED <<idx, file_data, filename, settings>>
           ELSE /\ file_data' = e.file_data
                /\ filename' = e.filename
                /\ settings' = e.settings
                /\ idx' = idx + 1
                /\ UNCHANGED <<pc, exc>>
    /\ UNCHANGED <<req, post_data, bytesRead, parts, temp, result, caught, wire,
                   conn, encCalls, rmtreeCalls, warnings, outputReads, PRESETS, overridden, sanIn, sanOut>>

\* after the loop: stage the upload (tempfile.mkdtemp) or answer 400
DecideStaging ==
    /\ pc = "parts"
    /\ idx > Len(parts)
    /\ IF Truthy(file_data) /\ Truthy(filename)
       THEN /\ temp' = [made |-> TRUE, exists |-> TRUE, files |-> {}]
            /\ pc' = "write"
            /\ UNCHANGED <<wire, conn, caught, exc>>
       ELSE /\ ReplyError(400, <<"No file uploaded">>)
            /\ temp' = temp
    /\ UNCHANGED <<req, post_data, bytesRead, parts, idx, file_data, filename,
                   settings, result, encCalls, rmtreeCalls, warnings, outputReads, PRESETS, overridden,
                   sanIn, sanOut>>

\* with open(input_path, 'wb') as f: f.write(file_data); the open or the write
\* may fail, and fails when the name is a directory
WriteUpload ==
    /\ pc = "write"
    /\ \E ok \in BOOLEAN :
        IF ok /\ ~IsDirectoryName(filename[1])
        THEN /\ temp' = [temp EXCEPT !.files = {[name |-> filename[1],
                                                 data |-> file_data[1]]}]
             /\ pc' = "construct"
             /\ caught' = caught
        ELSE /\ pc' = "except"
             /\ caught' = "OSError"
             /\ temp' = temp
    /\ UNCHANGED <<req, post_data, bytesRead, parts, idx, file_data, filename,
                   settings, result, exc, wire, conn, encCalls, rmtreeCalls,
                   warnings, outputReads, PRESETS, overridden, sanIn, sanOut>>

\* where SystemExit, raised inside the try block, leads: `except Exception` does
\* not catch it, the finally clause runs
AfterSystemExitNoFinally == "done"

AfterSystemExit == "finally"

\* compressor = VideoCompressor(): check_ffmpeg runs `ffmpeg -version` and
\* calls sys.exit(1) when that fails
Construct ==
    /\ pc = "construct"
    /\ \E ffmpegOk \in BOOLEAN :
        IF ffmpegOk
        THEN /\ pc' = "compress"
             /\ exc' = exc
        ELSE /\ pc' = AfterSystemExit
             /\ exc' = "SystemExit"
    /\ UNCHANGED <<req, post_data, bytesRead, parts, idx, file_data, filename,
                   settings, temp, result, caught, wire, conn, encCalls,
                   rmtreeCalls, warnings, outputReads, PRESETS, overridden, sanIn, sanOut>>

\* a crf or scale argument that compress writes into the settings
HasOverride(crf, scale) == crf # <<>> \/ (scale # <<>> /\ scale[1] # <<>>)

\* **settings: a keyword argument that is absent takes compress's default
Kw(st, k, default) == IF k \in DOMAIN st THEN st[k] ELSE default

KwOpt(st, k) == IF k \in DOMAIN st THEN <<st[k]>> ELSE <<>>

\* the compress call do_POST makes with its settings dict
HandlerCall(table, st) ==
    EncoderCall(table, Kw(st, "preset", "medium"), KwOpt(st, "crf"),
                KwOpt(st, "scale"), KwOpt(st, "fps"), Kw(st, "codec", "h264"))

\* what the encoder wrote on its error stream, and the file it produced
StderrText == <<"ffmpeg: conversion failed">>

OutputData == <<"z">>

OkResult(inSize, outSize) ==
    [success |-> TRUE, error |-> <<>>, input_size |-> inSize, output_size |-> outSize]

FailResult(err) ==
    [success |-> FALSE, error |-> err, input_size |-> 0, output_size |-> 0]

\* result = compressor.compress(input, output, **settings): the argument list
\* is built and ffmpeg is run once.  It exits 0 and leaves the output file,
\* exits non-zero (CalledProcessError, returned as a failure dict), or the
\* call raises (subprocess.run itself, or stat() of a missing output file).
Compress ==
    /\ pc = "compress"
    /\ encCalls' = Append(encCalls, HandlerCall(PRESETS, settings))
    /\ PRESETS' = PresetsAfter(PRESETS, Kw(settings, "preset", "medium"),
                               KwOpt(settings, "crf"), KwOpt(settings, "scale"))
    /\ overridden' = (overridden \/ HasOverride(KwOpt(settings, "crf"),
                                                KwOpt(settings, "scale")))
    /\ \E outcome \in {"exit0", "nonzero", "raise"} :
        CASE outcome = "exit0" ->
                /\ temp' = [temp EXCEPT !.files =
                              @ \cup {[name |-> OutputFilename(filename[1]),
                                       data |-> OutputData]}]
                /\ result' = <<OkResult(Len(file_data[1]), Len(OutputData))>>
                /\ pc' = "result"
                /\ caught' = caught
          [] outcome = "nonzero" ->
                /\ result' = <<FailResult(StderrText)>>
                /\ pc' = "result"
                /\ UNCHANGED <<temp, caught>>
          [] outcome = "raise" ->
                /\ pc' = "except"
                /\ caught' = "OSError"
                /\ UNCHANGED <<temp, result>>
    /\ UNCHANGED <<req, post_data, bytesRead, parts, idx, file_data, filename,
                   settings, exc, wire, conn, rmtreeCalls, warnings, outputReads, sanIn, sanOut>>

\* the 200 response: status line and headers, then the file's bytes
OkChunks(name, res, data) ==
    << HeadChunk(200, "application/octet-stream",
                 AsciiSafeFilename(OutputFilename(name)),
                 <<[original_size |-> res.input_size,
                    compressed_size |-> res.output_size]>>),
       [kind |-> "body", code |-> 200, ctype |-> "application/octet-stream",
        filename |-> <<>>, info |-> <<>>, json |-> <<>>, data |-> data] >>

\* result['success']: the output file is read (which may fail) and sent
SendCompressed ==
    /\ pc = "result"
    /\ result[1].success
    /\ outputReads' = outputReads + 1
    /\ \E readOk \in BOOLEAN :
        IF readOk
        THEN WriteChunks(OkChunks(filename[1], result[1], OutputData),
                         "finally", "except", TRUE, FALSE)
        ELSE /\ pc' = "except"
             /\ caught' = "OSError"
             /\ UNCHANGED <<wire, conn, exc>>
    /\ UNCHANGED <<req, post_data, bytesRead, parts, idx, file_data, filename,
                   settings, temp, result, encCalls, rmtreeCalls, warnings,
                   PRESETS, overridden, sanIn, sanOut>>

ErrorMessageUnknown(res) == <<"Unknown error">>

\* error_msg = result.get('error', 'Unknown error'), as a string
ErrorMessage(res) == res.error

\* not result['success']: 500 with the encoder's error text
SendEncoderError ==
    /\ pc = "result"
    /\ ~result[1].success
    /\ WriteChunks(ErrorChunks(500, ErrorMessage(result[1])),
                   "finally", "except", TRUE, FALSE)
    /\ UNCHANGED <<req, post_data, bytesRead, parts, idx, file_data, filename,
                   settings, temp, result, encCalls, rmtreeCalls, warnings, outputReads,
                   PRESETS, overridden, sanIn, sanOut>>

\* except Exception as e: 500 "Server error: <e>"; a failure of this write
\* leaves the handler as an exception, through the finally clause
ExceptClause ==
    /\ pc = "except"
    /\ WriteChunks(ErrorChunks(500, <<"Server error: ", caught>>),
                   "finally", "finally", FALSE, TRUE)
    /\ UNCHANGED <<req, post_data, bytesRead, parts, idx, file_data, filename,
                   settings, temp, result, encCalls, rmtreeCalls, warnings, outputReads,
                   PRESETS, overridden, sanIn, sanOut>>

\* the directory after shutil.rmtree(temp_dir) returned without raising
Rmtree(t) == [t EXCEPT !.exists = FALSE, !.files = {}]

\* finally: shutil.rmtree(temp_dir); when it raises, a warning is logged and
\* the directory stays
FinallyClause ==
    /\ pc = "finally"
    /\ rmtreeCalls' = rmtreeCalls + 1
    /\ \E removed \in BOOLEAN :
        IF removed
        THEN /\ temp' = Rmtree(temp)
             /\ warnings' = warnings
        ELSE /\ temp' = temp
             /\ warnings' = Append(warnings, "Failed to clean up temp dir")
    /\ pc' = "done"
    /\ UNCHANGED <<req, post_data, bytesRead, parts, idx, file_data, filename,
                   settings, result, caught, exc, wire, conn, encCalls, outputReads,
                   PRESETS, overridden, sanIn, sanOut>>

\* do_POST is over; the server takes the next request.  SystemExit ends the
\* serving process instead.
Return ==
    /\ pc = "done"
    /\ exc # "SystemExit"
    /\ pc' = "idle"
    /\ req' = NoRequest
    /\ ResetLocals
    /\ UNCHANGED <<PRESETS, overridden, sanIn, sanOut>>

\* ------------------------------------------- the command line, other callers

CrfArgs == {<<>>, <<-1>>, <<0>>, <<20>>, <<51>>, <<52>>}

ScaleArgs == {<<>>, << <<>> >>, << <<"6", "4", "0", ":", "-", "2">> >>}

FpsArgs == {<<>>, <<0>>, <<30>>}

PresetNames == VALID_PRESETS \cup {"ultra", "High"}

\* one run of compress on given arguments: the input file may be missing
\* (FileNotFoundError, before anything is built), else ffmpeg is run once
CompressCall(preset, crf, scale, fps, codec, nextpc) ==
    \E outcome \in {"missing", "exit0", "nonzero"} :
        /\ pc' = nextpc
        /\ IF outcome = "missing"
           THEN /\ exc' = "FileNotFoundError"
                /\ UNCHANGED <<encCalls, result, PRESETS, overridden>>
           ELSE /\ encCalls' = <<EncoderCall(PRESETS, preset, crf, scale, fps, codec)>>
                /\ PRESETS' = PresetsAfter(PRESETS, preset, crf, scale)
                /\ overridden' = (overridden \/ HasOverride(crf, scale))
                /\ result' = IF outcome = "exit0"
                             THEN <<OkResult(2, 1)>> ELSE <<FailResult(StderrText)>>
                /\ exc' = exc
        /\ UNCHANGED <<req, post_data, bytesRead, parts, idx, file_data, filename,
                       settings, temp, caught, wire, conn, rmtreeCalls, warnings, outputReads,
                       sanIn, sanOut>>

\* compress_video.main with an input file: argparse restricts --preset and
\* --codec to their choices and takes any integer for --crf and --fps
CliMain ==
    /\ pc = "idle"
    /\ \E preset \in VALID_PRESETS, crf \in CrfArgs, scale \in ScaleArgs,
          fps \in FpsArgs, codec \in VALID_CODECS :
          CompressCall(preset, crf, scale, fps, codec, "exit")

\* the command exits; the next one is a new process with the class table as
\* loaded
CliExit ==
    /\ pc = "exit"
    /\ pc' = "idle"
    /\ req' = NoRequest
    /\ ResetLocals
    /\ PRESETS' = BuiltinPresets
    /\ overridden' = FALSE
    /\ UNCHANGED <<sanIn, sanOut>>

\* VideoCompressor().compress(...) called by other code of the process, with
\* any preset name
LibCompress ==
    /\ pc = "idle"
    /\ \E preset \in PresetNames, crf \in CrfArgs, scale \in ScaleArgs,
          fps \in FpsArgs, codec \in {"h264", "h265", "vp9"} :
          CompressCall(preset, crf, scale, fps, codec, "returned")

LibReturn ==
    /\ pc = "returned"
    /\ pc' = "idle"
    /\ req' = NoRequest
    /\ ResetLocals
    /\ UNCHANGED <<PRESETS, overridden, sanIn, sanOut>>

Next ==
    \/ NewRequest
    \/ NotFound
    \/ CheckContentLength
    \/ ReadBody
    \/ ParseBoundary
    \/ ProcessPart
    \/ DecideStaging
    \/ WriteUpload
    \/ Construct
    \/ Compress
    \/ SendCompressed
    \/ SendEncoderError
    \/ ExceptClause
    \/ FinallyClause
    \/ Return
    \/ CliMain
    \/ CliExit
    \/ LibCompress
    \/ LibReturn

Spec == Init /\ [][Next]_vars

\* ----------------------------------------------- _sanitize_filename alone

NameAlphabet == {"a", ".", "/", "\\", "NUL"}

NameStrings == UNION {[1..n -> NameAlphabet] : n \in 0..MaxNameLen}

\* _sanitize_filename applied to a string, and again to its result
SanitizeCall ==
    /\ \E s \in NameStrings :
        /\ sanIn' = s
        /\ sanOut' = <<SanitizeFilename(s), SanitizeFilename(SanitizeFilename(s))>>
    /\ UNCHANGED <<pc, req, locals, PRESETS, overridden>>

SanNext == SanitizeCall

SanSpec == Init /\ [][SanNext]_vars

\* ================================================================ claims

\* the handler has left do_POST for a request that created a staging directory
StagedAndLeft == pc = "done" /\ temp.made

\* C1, as stated: every staging directory a request created, and everything in
\* it, no longer exists when do_POST returns or is left by an exception.
C1_StagingGoneOnEveryExit == StagedAndLeft => (~temp.exists /\ temp.files = {})

\* C1, amended: on every exit path of a request that created a staging
\* directory, shutil.rmtree was called on it exactly once; the directory and
\* its files are gone unless that call raised, and then a warning was logged.
C1_RmtreeOnEveryExit ==
    StagedAndLeft =>
        /\ rmtreeCalls = 1
        /\ IF temp.exists
           THEN warnings = <<"Failed to clean up temp dir">>
           ELSE temp.files = {} /\ warnings = <<>>

\* C1 witness: do_POST was left by an exception after staging, directory gone
C1_Witness == StagedAndLeft /\ ~temp.exists /\ exc = "SystemExit"

\* ---- what a request is, read off the request itself

\* the Content-Length is an integer from 0 to the limit
LengthAccepted(r) ==
    r.cl.tag = "int" /\ ~WideGT(r.cl.val, MAX_FILE_SIZE) /\ ~WideNeg(r.cl.val)

\* the body is complete and delimited by the boundary the Content-Type names
WellDelimited(r) ==
    /\ r.path = "/compress"
    /\ LengthAccepted(r)
    /\ r.cl.val = Wide(0, Len(r.stream))
    /\ Contains(r.ctype, <<"boundary=">>)

\* the parts as the client delimited them
SentParts(r) == Split(r.stream, Delim)

\* a part for a known field whose header block is not ended by a blank line
MalformedPart(p) == BranchOf(p) # "" /\ ~Contains(p, SEP)

HasMalformedPart(r) ==
    \E k \in 1..Len(SentParts(r)) : MalformedPart(SentParts(r)[k])

\* the payload of a part: what follows the blank line, less one trailing CRLF
PartPayload(p) ==
    LET data == SubSeq(p, Find(p, SEP) + Len(SEP), Len(p))
    IN  IF data # <<>> /\ data[Len(data)] = "CRLF"
        THEN SubSeq(data, 1, Len(data) - 1) ELSE data

\* a file part that carries a filename parameter and a non-empty payload
SuppliesFile(p) ==
    /\ BranchOf(p) = "file"
    /\ Contains(p, SEP)
    /\ Contains(SubSeq(p, 1, Find(p, SEP) - 1), <<"file", "name=\"">>)
    /\ PartPayload(p) # <<>>

HasUsableFile(r) ==
    \E k \in 1..Len(SentParts(r)) : SuppliesFile(SentParts(r)[k])

\* the client input errors: a bad or missing Content-Length, a length over
\* the limit, no boundary, a malformed part, no usable file part
ClientInputError(r) ==
    /\ r.path = "/compress"
    /\ \/ r.cl.tag \in {"absent", "empty", "text"}
       \/ r.cl.tag = "int" /\ WideGT(r.cl.val, MAX_FILE_SIZE)
       \/ LengthAccepted(r) /\ ~Contains(r.ctype, <<"boundary=">>)
       \/ WellDelimited(r) /\ HasMalformedPart(r)
       \/ WellDelimited(r) /\ ~HasUsableFile(r)

\* exactly one response, a status line with headers and a JSON error body
OneJsonError(codes) ==
    /\ Len(wire) = 2
    /\ wire[1].kind = "head" /\ wire[1].code \in codes /\ wire[1].ctype = JsonType
    /\ wire[2].kind = "body" /\ wire[2].json # <<>>

\* C2, as stated: a request that is a client input error gets exactly one 4xx
\* response with a JSON error body, and neither a staging directory is
\* created nor the encoder invoked for it (the response is judged when the
\* client is still connected).
C2_ClientErrorsAnswered4xx ==
    ClientInputError(req) =>
        /\ ~temp.made
        /\ encCalls = <<>>
        /\ (pc = "done" /\ conn = "open") => OneJsonError(400..499)

\* C3, as stated: a declared length above 4 GiB is answered 413 with no byte
\* of the body read; a declared length that is accepted is read exactly (the
\* client having sent at least that many bytes).
C3_ReadsExactlyDeclared ==
    /\ (req.path = "/compress" /\ req.cl.tag = "int"
        /\ WideGT(req.cl.val, MAX_FILE_SIZE))
       => /\ bytesRead = <<>>
          /\ pc \in {"post", "done"}
          /\ (pc = "done" /\ conn = "open") => OneJsonError({413})
    /\ (req.path = "/compress" /\ req.cl.tag = "int"
        /\ ~WideGT(req.cl.val, MAX_FILE_SIZE)
        /\ ~WideGT(req.cl.val, Wide(0, Len(req.stream)))
        /\ pc \notin {"post", "read"})
       => /\ bytesRead # <<>>
          /\ Wide(0, bytesRead[1]) = req.cl.val

\* every part of the body has its blank line, and the headers are in order
WellFormed(r) == WellDelimited(r) /\ ~HasMalformedPart(r)

AfterDecision ==
    {"write", "construct", "compress", "result", "except", "finally", "done"}

\* C4, as stated: a well-formed request is rejected with 400 "No file
\* uploaded" exactly when no part supplied both a filename and a payload for
\* the file field, and the encoder never runs on an empty staged input.
C4_RejectedIffNoFilePart ==
    WellFormed(req) =>
        /\ pc \in AfterDecision => (temp.made <=> HasUsableFile(req))
        /\ (pc = "done" /\ ~temp.made /\ conn = "open")
           => wire = ErrorChunks(400, <<"No file uploaded">>)
        /\ encCalls # <<>> => file_data[1] # <<>>

\* the encoder ran for this request and exited non-zero
EncoderFailed == req.path = "/compress" /\ result # <<>> /\ ~result[1].success

\* what C5 says of the response and the encoder, the client still connected
EncoderFailureReported ==
    /\ wire = ErrorChunks(500, StderrText)
    /\ outputReads = 0
    /\ Len(encCalls) = 1

\* C5, as stated: after a non-zero encoder exit the handler answers 500 with
\* the encoder's error text, sends no 200, does not read the output file,
\* does not run the encoder again, and the staging directory is removed.
C5_EncoderFailureCleansUp ==
    (EncoderFailed /\ pc = "done" /\ conn = "open")
    => (EncoderFailureReported /\ ~temp.exists)

\* C5, amended: the same, with the staging directory removed unless rmtree
\* itself raised (then a warning was logged); rmtree was called exactly once.
C5_EncoderFailureReported ==
    /\ EncoderFailed => (outputReads = 0 /\ Len(encCalls) = 1)
    /\ (EncoderFailed /\ pc = "done" /\ conn = "open")
       => /\ EncoderFailureReported
          /\ rmtreeCalls = 1
          /\ temp.exists => warnings = <<"Failed to clean up temp dir">>

\* C5 witness: a failed encode, answered, the directory removed
C5_Witness ==
    /\ EncoderFailed /\ pc = "done" /\ conn = "open"
    /\ ~temp.exists /\ Len(wire) = 2

\* C6, as stated: a request that reached staging ends with exactly one
\* response, of status 200 or 500 (the client still connected), and no 500
\* is ever written after a 200 status line.
C6_StagedRequestAnswered ==
    /\ (StagedAndLeft /\ conn = "open")
       => /\ Len(wire) = 2
          /\ wire[1].kind = "head" /\ wire[1].code \in {200, 500}
          /\ wire[2].kind = "body" /\ wire[2].code = wire[1].code
    /\ \A i \in 1..Len(wire) : \A j \in 1..Len(wire) :
          (i < j /\ wire[i].code = 200) => wire[j].code # 500

\* the preset a name stands for as the class is loaded: itself for the four
\* built-in names, medium for any other
BuiltinFor(name) ==
    IF name \in {"high", "medium", "low", "web"}
    THEN BuiltinPresets[name] ELSE BuiltinPresets["medium"]

\* C7, as stated: the -crf argument is the override exactly when the override
\* lies in [0, 51], and the preset's built-in crf when it lies outside.
C7_CrfOverrideOnlyInRange ==
    \A k \in 1..Len(encCalls) :
        LET c == encCalls[k]
        IN  c.crf # <<>> =>
              c.cmd.crf = IF 0 <= c.crf[1] /\ c.crf[1] <= 51
                          THEN c.crf[1] ELSE BuiltinFor(c.preset).crf

\* C8: whatever calls came before, a call with no overrides passes the
\* built-in crf, speed label and scale of its preset (of medium for an
\* unknown name), and the PRESETS table is as it was loaded.
C8_DefaultsIndependentOfHistory ==
    /\ PRESETS = BuiltinPresets
    /\ \A k \in 1..Len(encCalls) :
        LET c == encCalls[k]
            b == BuiltinFor(c.preset)
        IN  ~HasOverride(c.crf, c.scale) =>
              /\ c.cmd.crf = b.crf
              /\ c.cmd.preset = b.preset
              /\ c.cmd.vf = IF "scale" \in DOMAIN b THEN <<b.scale>> ELSE <<>>

\* C8 witness: after a call with overrides, a call with an unknown preset name
\* and no overrides
C8_Witness ==
    /\ overridden
    /\ encCalls # <<>>
    /\ encCalls[1].preset = "ultra"
    /\ ~HasOverride(encCalls[1].crf, encCalls[1].scale)

\* C9, as stated: sanitizing a sanitized name changes nothing; the result is
\* the sanitized final path component, holds no separator and is not empty.
C9_SanitizeIdempotent ==
    sanOut # <<>> =>
        /\ sanOut[2] = sanOut[1]
        /\ sanOut[1] = SanitizeFilename(PathName(sanIn))
        /\ ~Contains(sanOut[1], <<"/">>)
        /\ sanOut[1] # <<>>

\* the settings a request may carry, by the field table
SettingsValid(st) ==
    /\ "preset" \in DOMAIN st => st.preset \in {"high", "medium", "low", "web"}
    /\ "codec" \in DOMAIN st => st.codec \in {"h264", "h265"}
    /\ "crf" \in DOMAIN st => st.crf \in 0..51
    /\ "fps" \in DOMAIN st => st.fps \in 1..120
    /\ "scale" \in DOMAIN st => ScaleShape(st.scale)

\* the value of a crf, fps or scale part is not one the field table accepts
InvalidValue(part) ==
    LET b == BranchOf(part)
        v == ValueBytes(part)
    IN  CASE b = "crf" -> ~(DecodeOk(v) /\ PyInt(v).ok /\ PyInt(v).val \in 0..51)
          [] b = "fps" -> ~(DecodeOk(v) /\ PyInt(v).ok /\ PyInt(v).val \in 1..120)
          [] b = "scale" -> ~ScaleShape(DecodeIgnore(v))

\* the part loop is about to take a crf, fps or scale part with an invalid value
AtInvalidValue ==
    /\ pc = "parts"
    /\ idx <= Len(parts)
    /\ BranchOf(parts[idx]) \in {"crf", "fps", "scale"}
    /\ HasValue(parts[idx])
    /\ InvalidValue(parts[idx])

\* C10, as stated: at encoder invocation every setting present is a value the
\* field table accepts, and a crf, fps or scale part with an invalid value
\* leaves the settings as they were and sends no response.
C10_SettingsAcceptedValuesOnly ==
    /\ [](pc = "compress" => SettingsValid(settings))
    /\ [][AtInvalidValue => (settings' = settings /\ wire' = wire /\ exc' = "")]_vars

\* ---- the field a part declares, read off its Content-Disposition header

FieldNames == {"file", "preset", "crf", "scale", "fps", "codec"}

\* the header block of a part: what precedes the blank line
HeaderBlock(p) == IF Contains(p, SEP) THEN SubSeq(p, 1, Find(p, SEP) - 1) ELSE p

\* position i of the header block holds the name parameter (name=", and not
\* the tail of filename=")
NameParamAt(h, i) == h[i] = "name=\"" /\ (i = 1 \/ h[i - 1] # "file")

\* the value of the name parameter, up to its closing quote; <<>> if none
DeclaredName(p) ==
    LET h == HeaderBlock(p)
        S == {i \in 1..Len(h) : NameParamAt(h, i)}
    IN  IF S = {} THEN <<>>
        ELSE LET i == CHOOSE i \in S : \A j \in S : i <= j
             IN  Split(SubSeq(h, i + 1, Len(h)), <<"\"">>)[1]

\* the form field a part is declared for ("" : none of the six)
DeclaredField(p) ==
    LET n == DeclaredName(p)
    IN  IF Len(n) = 1 /\ n[1] \in FieldNames THEN n[1] ELSE ""

\* the parts the loop has taken: those behind idx, and the one it raised on
TakenParts ==
    {k \in 1..Len(parts) : k < idx \/ (k = idx /\ exc = "IndexError")}

\* C11, as stated: every part with a Content-Disposition marker that the part
\* loop has taken was handled as the field its name parameter declares, and
\* ignored when it declares none of the six fields, whatever its filename
\* parameter and its body contain.
C11_ClassifiedByDeclaredName ==
    \A k \in TakenParts :
        Contains(parts[k], <<"Content-Disposition">>)
        => BranchOf(parts[k]) = DeclaredField(parts[k])

====
